---- MODULE Spec2Model ----
(***************************************************************************)
(* Model of observer.py: the Google-Sheets classroom observer.             *)
(*                                                                         *)
(* SheetsParser (the grid decoder) is a set of operators over grids whose  *)
(* cells are sequences of one-character strings.  SheetsObserver (hash,    *)
(* change detection, notification, cache, polling loop) is a state machine *)
(* whose actions are start_monitoring's steps.                             *)
(*                                                                         *)
(* Python values: a str is a sequence of one-character strings; a list is  *)
(* a sequence (read with 0-based At); a dict or dataclass instance is a    *)
(* record; None is a record of its own, and so is every value that stands  *)
(* where None may stand (a digest, a raised exception, the cache file).    *)
(***************************************************************************)
EXTENDS Integers, Sequences, FiniteSets, TLC

None == [none |-> TRUE]

\* An exception of class e, raised.
Raise(e) == [exception |-> e]

\* ------------------------------------------------------------------ str

\* The whitespace str.strip() removes, restricted to the model's alphabet.
Whitespace == {" ", "\n"}

DigitValue == [c \in {"0", "1", "2", "3", "4", "5", "6", "7", "8", "9"} |->
    CASE c = "0" -> 0 [] c = "1" -> 1 [] c = "2" -> 2 [] c = "3" -> 3
      [] c = "4" -> 4 [] c = "5" -> 5 [] c = "6" -> 6 [] c = "7" -> 7
      [] c = "8" -> 8 [] c = "9" -> 9]

\* seq[i] with Python's 0-based index.
At(seq, i) == seq[i + 1]

\* seq[lo:hi], Python's slice: clipped to the sequence, never raising.
Slice(seq, lo, hi) ==
    SubSeq(seq, lo + 1, IF hi < Len(seq) THEN hi ELSE Len(seq))

RECURSIVE lstrip(_)
lstrip(s) ==
    IF s # <<>> /\ Head(s) \in Whitespace THEN lstrip(Tail(s)) ELSE s

RECURSIVE rstrip(_)
rstrip(s) ==
    IF s # <<>> /\ s[Len(s)] \in Whitespace
    THEN rstrip(SubSeq(s, 1, Len(s) - 1))
    ELSE s

\* str.strip()
strip(s) == rstrip(lstrip(s))

\* str.split('\n'): the pieces between line breaks, always at least one.
RECURSIVE split(_)
split(s) ==
    IF \A i \in 1..Len(s) : s[i] # "\n"
    THEN <<s>>
    ELSE LET k == CHOOSE i \in 1..Len(s) :
                      s[i] = "\n" /\ \A j \in 1..(i - 1) : s[j] # "\n"
         IN  <<SubSeq(s, 1, k - 1)>> \o split(SubSeq(s, k + 1, Len(s)))

\* " ".join(lines)
RECURSIVE join(_)
join(lines) ==
    IF lines = <<>> THEN <<>>
    ELSE IF Len(lines) = 1 THEN lines[1]
    ELSE lines[1] \o <<" ">> \o join(Tail(lines))

RECURSIVE DigitsValue(_)
DigitsValue(ds) ==
    IF ds = <<>> THEN 0
    ELSE 10 * DigitsValue(SubSeq(ds, 1, Len(ds) - 1)) + DigitValue[ds[Len(ds)]]

\* int(s): surrounding whitespace is ignored, then an optional sign and one
\* or more decimal digits; anything else is a ValueError.
int(s) ==
    LET t      == strip(s)
        signed == t # <<>> /\ Head(t) \in {"+", "-"}
        ds     == IF signed THEN Tail(t) ELSE t
        ok     == ds # <<>> /\ \A i \in 1..Len(ds) : ds[i] \in DOMAIN DigitValue
    IN  IF ~ok THEN [raised |-> Raise("ValueError"), value |-> 0]
        ELSE [raised |-> None,
              value  |-> IF signed /\ Head(t) = "-"
                         THEN 0 - DigitsValue(ds) ELSE DigitsValue(ds)]

\* ---------------------------------------------------------- SheetsParser

time_slots ==
    << <<"07:00", "08:00">>, <<"08:00", "09:00">>, <<"09:00", "10:00">>,
       <<"10:00", "11:00">>, <<"11:00", "12:00">>, <<"12:00", "13:00">>,
       <<"13:00", "14:00">>, <<"14:00", "15:00">>, <<"15:00", "16:00">>,
       <<"16:00", "17:00">>, <<"17:00", "18:00">>, <<"18:00", "19:00">>,
       <<"19:00", "20:00">>, <<"20:00", "21:00">> >>

\* list(self.day_columns.keys())
days_order == <<"monday", "tuesday", "wednesday", "thursday", "friday">>

start_row == 7
total_days == 5
slots_per_day == 14
start_col == 5

TimeSlot(start_time, end_time, subject, professor, program) ==
    [start_time |-> start_time, end_time |-> end_time, subject |-> subject,
     professor |-> professor, program |-> program]

\* TimeSlot.is_empty
is_empty(slot) ==
    ~(slot.subject # <<>> \/ slot.professor # <<>> \/ slot.program # <<>>)

\* _parse_time_slot without the join of the lines after the third.
_parse_time_slot_three_lines(cell_content, start_time, end_time) ==
    IF cell_content = <<>> \/ strip(cell_content) = <<>>
    THEN TimeSlot(start_time, end_time, <<>>, <<>>, <<>>)
    ELSE LET lines == split(strip(cell_content))
         IN  TimeSlot(start_time, end_time,
                      IF Len(lines) > 1 THEN At(lines, 1) ELSE <<>>,
                      IF Len(lines) > 2 THEN At(lines, 2) ELSE <<>>,
                      At(lines, 0))

\* _parse_time_slot without strip(): only "" is an empty cell.
_parse_time_slot_no_strip(cell_content, start_time, end_time) ==
    IF cell_content = <<>>
    THEN TimeSlot(start_time, end_time, <<>>, <<>>, <<>>)
    ELSE LET lines == split(cell_content)
         IN  TimeSlot(start_time, end_time,
                      IF Len(lines) > 1 THEN At(lines, 1) ELSE <<>>,
                      IF Len(lines) > 3 THEN join(Slice(lines, 2, Len(lines)))
                      ELSE IF Len(lines) > 2 THEN At(lines, 2) ELSE <<>>,
                      At(lines, 0))

_parse_time_slot(cell_content, start_time, end_time) ==
    IF cell_content = <<>> \/ strip(cell_content) = <<>>
    THEN TimeSlot(start_time, end_time, <<>>, <<>>, <<>>)
    ELSE LET content   == strip(cell_content)
             lines     == split(content)
             program   == IF lines # <<>> THEN At(lines, 0) ELSE <<>>
             subject   == IF Len(lines) > 1 THEN At(lines, 1) ELSE <<>>
             professor == IF Len(lines) > 3 THEN join(Slice(lines, 2, Len(lines)))
                          ELSE IF Len(lines) > 2 THEN At(lines, 2)
                          ELSE <<>>
         IN  TimeSlot(start_time, end_time, subject, professor, program)

_get_row_safely(data, row_index) ==
    IF row_index < Len(data) THEN At(data, row_index) ELSE <<>>

\* _parse_classroom_schedule appending a slot only for a column the row has.
_parse_classroom_schedule_present_only(data, row) ==
    LET row_data == _get_row_safely(data, row)
        col_index(d, i) == start_col + (d * slots_per_day) + i
    IN  [day \in {days_order[k] : k \in 1..total_days} |->
            LET d == (CHOOSE k \in 1..total_days : days_order[k] = day) - 1
                present == Cardinality({ i \in 0..(slots_per_day - 1) :
                                            col_index(d, i) < Len(row_data) })
            IN  [n \in 1..present |->
                    _parse_time_slot(At(row_data, col_index(d, n - 1)),
                                     time_slots[n][1], time_slots[n][2])]]

\* _parse_classroom_schedule reading the columns slot by slot, the five
\* days of a slot side by side.
_parse_classroom_schedule_slot_major(data, row) ==
    LET row_data == _get_row_safely(data, row)
        cell(d, i) ==
            LET col_index == start_col + (i * total_days) + d
            IN  IF col_index < Len(row_data) THEN At(row_data, col_index) ELSE <<>>
    IN  [day \in {days_order[k] : k \in 1..total_days} |->
            LET d == (CHOOSE k \in 1..total_days : days_order[k] = day) - 1
            IN  [n \in 1..slots_per_day |->
                    _parse_time_slot(cell(d, n - 1),
                                     time_slots[n][1], time_slots[n][2])]]

\* The schedule of the room in row start_row of data: for each day the 14
\* slots in slot order, the slot of day d and interval i read from column
\* start_col + d * slots_per_day + i of the same row ("" beyond its end).
_parse_classroom_schedule(data, row) ==
    LET row_data == _get_row_safely(data, row)
        cell(d, i) ==
            LET col_index == start_col + (d * slots_per_day) + i
            IN  IF col_index < Len(row_data) THEN At(row_data, col_index) ELSE <<>>
    IN  [day \in {days_order[k] : k \in 1..total_days} |->
            LET d == (CHOOSE k \in 1..total_days : days_order[k] = day) - 1
            IN  [n \in 1..slots_per_day |->
                    _parse_time_slot(cell(d, n - 1),
                                     time_slots[n][1], time_slots[n][2])]]

\* _extract_classroom_basic_info without the strip() of the three cells.
_extract_classroom_basic_info_no_strip(row) ==
    LET row_check == Slice(row, 1, 5)
    IN  IF Len(row_check) < 4 THEN None
        ELSE IF ~(At(row_check, 0) # <<>> /\ At(row_check, 1) # <<>> /\ At(row_check, 2) # <<>>)
        THEN None
        ELSE LET parsed == int(At(row_check, 3))
             IN  [number |-> At(row_check, 0), building |-> At(row_check, 1),
                  name |-> At(row_check, 2),
                  capacity |-> IF parsed.raised = None THEN parsed.value ELSE 0]

\* _extract_classroom_basic_info giving up the row on a ValueError.
_extract_classroom_basic_info_reject(row) ==
    LET row_check == Slice(row, 1, 5)
    IN  IF Len(row_check) < 4 THEN None
        ELSE LET number   == strip(At(row_check, 0))
                 building == strip(At(row_check, 1))
                 name     == strip(At(row_check, 2))
                 parsed   == int(At(row_check, 3))
             IN  IF ~(number # <<>> /\ building # <<>> /\ name # <<>>) THEN None
                 ELSE IF parsed.raised # None THEN None
                 ELSE [number |-> number, building |-> building, name |-> name,
                       capacity |-> parsed.value]

\* None, or the dict of number, building, name and capacity.  An index
\* past the end of row[1:5] raises IndexError, which the method catches.
_extract_classroom_basic_info(row) ==
    LET row_check == Slice(row, 1, 5)
    IN  IF Len(row_check) < 3 THEN None
        ELSE LET number   == strip(At(row_check, 0))
                 building == strip(At(row_check, 1))
                 name     == strip(At(row_check, 2))
             IN  IF Len(row_check) < 4 THEN None
                 ELSE IF ~(number # <<>> /\ building # <<>> /\ name # <<>>) THEN None
                 ELSE LET parsed == int(At(row_check, 3))
                      IN  [number |-> number, building |-> building, name |-> name,
                           capacity |-> IF parsed.raised = None THEN parsed.value ELSE 0]

\* None, or the Classroom of row row_index, stamped with the time of decoding.
_try_parse_classroom_at_row(data, row_index, clock) ==
    IF row_index >= Len(data) \/ At(data, row_index) = <<>> THEN None
    ELSE LET header_row     == _get_row_safely(data, row_index)
             classroom_info == _extract_classroom_basic_info(header_row)
         IN  IF classroom_info = None THEN None
             ELSE [number       |-> classroom_info.number,
                   building     |-> classroom_info.building,
                   name         |-> classroom_info.name,
                   capacity     |-> classroom_info.capacity,
                   schedule     |-> _parse_classroom_schedule(data, row_index),
                   last_updated |-> clock]

\* The loop of parse_worksheet_data ending the pass at the first row that
\* yields no room.
RECURSIVE ParseRowsFrom_abort(_, _, _)
ParseRowsFrom_abort(data, current_row, clock) ==
    IF current_row >= Len(data) THEN <<>>
    ELSE LET classroom_data == _try_parse_classroom_at_row(data, current_row, clock)
         IN  IF classroom_data = None THEN <<>>
             ELSE <<classroom_data>> \o ParseRowsFrom_abort(data, current_row + 1, clock)

\* The rooms of rows current_row .. len(data)-1, in row order.
RECURSIVE ParseRowsFrom(_, _, _)
ParseRowsFrom(data, current_row, clock) ==
    IF current_row >= Len(data) THEN <<>>
    ELSE LET classroom_data == _try_parse_classroom_at_row(data, current_row, clock)
         IN  (IF classroom_data # None THEN <<classroom_data>> ELSE <<>>)
                 \o ParseRowsFrom(data, current_row + 1, clock)

\* parse_worksheet_data starting one row early, at the row of column titles.
parse_worksheet_data_from_titles(worksheet_data, clock) ==
    ParseRowsFrom(worksheet_data, start_row - 1, clock)

parse_worksheet_data(worksheet_data, clock) ==
    ParseRowsFrom(worksheet_data, start_row, clock)

\* ClassroomSchedule.to_dict
ClassroomSchedule_to_dict(schedule) ==
    [day \in DOMAIN schedule |->
        [n \in DOMAIN schedule[day] |->
            [start_time |-> schedule[day][n].start_time,
             end_time   |-> schedule[day][n].end_time,
             subject    |-> schedule[day][n].subject,
             professor  |-> schedule[day][n].professor,
             program    |-> schedule[day][n].program]]]

\* Classroom.to_dict leaving the capacity out.
Classroom_to_dict_no_capacity(classroom) ==
    [number       |-> classroom.number,
     building     |-> classroom.building,
     name         |-> classroom.name,
     schedule     |-> ClassroomSchedule_to_dict(classroom.schedule),
     last_updated |-> classroom.last_updated]

\* Classroom.to_dict
Classroom_to_dict(classroom) ==
    [number       |-> classroom.number,
     building     |-> classroom.building,
     name         |-> classroom.name,
     capacity     |-> classroom.capacity,
     schedule     |-> ClassroomSchedule_to_dict(classroom.schedule),
     last_updated |-> classroom.last_updated]

\* ------------------------------------------------------------- the sheet

\* Rows 0-6 of the template: titles, never rooms.  Row 6 holds the column
\* titles NO / EDIF / AULA / CUPO.
TemplateRows ==
    << <<>>, << <<"U">> >>, <<>>, <<>>, <<>>, <<>>,
       << <<>>, <<"N", "O">>, <<"E", "D">>, <<"A", "U">>, <<"C", "U">> >> >>

\* A room row: "", number, building, name, capacity, then the schedule cells
\* (Monday 07:00 first).
RoomRow(capacity, monday_first) ==
    << <<>>, <<"1", "0", "1">>, <<"A">>, <<"R", " ", "A">>, capacity, monday_first >>

\* The sheets get_all_values can return.
NoRoomSheet == TemplateRows \o << <<>>, << <<>>, <<>>, <<>>, <<>>, <<>> >> >>
RoomSheet   == TemplateRows \o << RoomRow(<<"3", "0">>, <<"P", "\n", "M", "\n", "D">>) >>

Sheets == {NoRoomSheet, RoomSheet}

\* ------------------------------------------------------- SheetsObserver

\* config.max_retries: MAX_RETRIES of the environment (5 when it is not set).
max_retries == 2

\* The loop's asyncio.sleep(20) and load_cache's timedelta(days=1), in seconds.
CheckSleep == 20
CacheMaxAge == 86400

\* The cache file: Absent, Partial (opened for writing, the document not
\* completely written), or the document written by save_cache.
Absent == [file |-> "absent"]
Partial == [file |-> "partial"]

FetchOutcomes == {"ok", "Exception"}
PostOutcomes  == {"200", "500", "RequestException", "Exception"}
WriteOutcomes == {"ok", "open_error", "write_error"}
ReadOutcomes  == {"ok", "open_error"}

\* get_all_values + parse_worksheet_data; a failure of the read is re-raised.
get_current_data(raw_data, clock, fetch) ==
    IF fetch # "ok" THEN [raised |-> Raise(fetch), classrooms |-> <<>>]
    ELSE IF raw_data = <<>> THEN [raised |-> None, classrooms |-> <<>>]
    ELSE [raised |-> None, classrooms |-> parse_worksheet_data(raw_data, clock)]

\* json.dumps(..., sort_keys=True): a record has no key order, a list keeps
\* its order; every field of every room is part of the text.
json_dumps(classrooms) ==
    [i \in 1..Len(classrooms) |-> Classroom_to_dict(classrooms[i])]

\* hashlib.md5(...).hexdigest(), taken to be free of collisions.
md5(json_string) == [md5 |-> json_string]

calculate_data_hash(classrooms) == md5(json_dumps(classrooms))

\* has_data_changed answering False on the first run.
has_data_changed_first_unchanged(last_hash, classrooms) ==
    LET current_hash == calculate_data_hash(classrooms)
    IN  [changed |-> last_hash # None /\ current_hash # last_hash,
         last_data_hash |-> current_hash, current_hash |-> current_hash]

\* has_data_changed answering True whatever the hashes are.
has_data_changed_always(last_hash, classrooms) ==
    LET current_hash == calculate_data_hash(classrooms)
    IN  [changed |-> TRUE, last_data_hash |-> current_hash, current_hash |-> current_hash]

\* has_data_changed reporting a change without storing the new hash.
has_data_changed_not_stored(last_hash, classrooms) ==
    LET current_hash == calculate_data_hash(classrooms)
    IN  [changed |-> last_hash = None \/ current_hash # last_hash,
         last_data_hash |-> last_hash, current_hash |-> current_hash]

has_data_changed(last_hash, classrooms) ==
    LET current_hash == calculate_data_hash(classrooms)
    IN  IF last_hash = None
        THEN [changed |-> TRUE, last_data_hash |-> current_hash, current_hash |-> current_hash]
        ELSE IF current_hash # last_hash
        THEN [changed |-> TRUE, last_data_hash |-> current_hash, current_hash |-> current_hash]
        ELSE [changed |-> FALSE, last_data_hash |-> last_hash, current_hash |-> current_hash]

\* notify_changes raising for a status other than 200.
notify_changes_raise_for_status(classrooms, clock, post) ==
    [posts   |-> 1,
     payload |-> [timestamp        |-> clock,
                  classrooms       |-> json_dumps(classrooms),
                  total_classrooms |-> Len(classrooms)],
     raised  |-> IF post \in {"200", "RequestException"} THEN None ELSE Raise(post)]

\* One requests.post; a status other than 200 and a RequestException are
\* logged, any other exception leaves the method.
notify_changes(classrooms, clock, post) ==
    LET payload == [timestamp        |-> clock,
                    classrooms       |-> json_dumps(classrooms),
                    total_classrooms |-> Len(classrooms)]
    IN  [posts   |-> 1,
         payload |-> payload,
         raised  |-> IF post \in {"200", "500", "RequestException"} THEN None ELSE Raise(post)]

\* open(cache_file, 'w') empties the file, json.dump then writes the
\* document; every failure is logged and swallowed.
save_cache(file, last_hash, classrooms, clock, write) ==
    IF write = "open_error" THEN file
    ELSE IF write = "write_error" THEN Partial
    ELSE [timestamp  |-> clock,
          data_hash  |-> last_hash,
          classrooms |-> json_dumps(classrooms)]

\* load_cache without the check of the cache's age.
load_cache_no_expiry(file, clock) ==
    IF file = Absent THEN None
    ELSE IF file = Partial THEN None
    ELSE file.data_hash

\* load_cache taking a partly written file for a document with a hash.
load_cache_reads_partial(file, clock) ==
    IF file = Absent THEN None
    ELSE IF file = Partial THEN md5(<<>>)
    ELSE IF clock - file.timestamp > CacheMaxAge THEN None
    ELSE file.data_hash

load_cache(file, clock) ==
    IF file = Absent THEN None
    ELSE IF file = Partial THEN None
    ELSE IF clock - file.timestamp > CacheMaxAge THEN None
    ELSE file.data_hash

\* The except branch setting the counter to 1 instead of adding 1.
CycleFailed_no_count(errors) ==
    [consecutive_errors |-> 1,
     critical           |-> errors + 1 >= max_retries]

\* The except branch comparing with > instead of >=.
CycleFailed_strict(errors) ==
    [consecutive_errors |-> errors + 1,
     critical           |-> errors + 1 > max_retries]

\* The except branch of run_observation_cycle.
CycleFailed(errors) ==
    [consecutive_errors |-> errors + 1,
     critical           |-> errors + 1 >= max_retries]

\* ------------------------------------------------------------ the state

\* Time is in seconds.  datetime.now() is read with microsecond resolution
\* and two cycles never read the same value: a cycle decodes at now and
\* takes one second, the loop's sleep takes CheckSleep.

\* Cycles run (all processes together) and processes started after the first.
MaxCycles == 3
MaxRestarts == 1

VARIABLES
    pc,                     \* where start_monitoring is: "init", "cycle", "sleeping",
                            \* "terminal"; "grid", "decoded", "edited" in DecodeSpec
    sheet,                  \* the worksheet, as get_all_values would return it
    now,                    \* datetime.now(), in seconds
    last_data_hash,         \* SheetsObserver.last_data_hash
    last_successful_check,  \* SheetsObserver.last_successful_check
    consecutive_errors,     \* SheetsObserver.consecutive_errors
    cache_file,             \* the file at config.cache_file
    last,                   \* log of the most recent run_observation_cycle
    boot,                   \* log of the most recent load_cache at startup
    unedited,               \* "fetch" / "save": the sheet was not edited since then
    failed_since_ok,        \* cycles that raised since the last one that did not
    undelivered,            \* the latest request failed and no sheet was read since
    cycles,                 \* cycles run, all processes together
    restarts,               \* processes started after the first
    exit,                   \* how the loop ended, once pc = "terminal"
    decoded,                \* DecodeSpec: the latest parse_worksheet_data result
    before                  \* DecodeSpec: the sheet and result of the pass before

vars == <<pc, sheet, now, last_data_hash, last_successful_check, consecutive_errors,
          cache_file, last, boot, unedited, failed_since_ok, undelivered, cycles,
          restarts, exit, decoded, before>>

\* What the loop's own steps leave alone.
others == <<exit, decoded, before>>

NoExit == [how |-> "", point |-> ""]
NoPass == [done |-> FALSE, sheet |-> <<>>, rooms |-> <<>>, from |-> <<>>, at |-> 0]

NoCycle ==
    [ran |-> FALSE, index |-> 0, at |-> 0, fetch_ok |-> FALSE,
     prev_hash |-> None, new_hash |-> None, changed |-> FALSE,
     notify_calls |-> 0, posts |-> 0, post |-> "",
     save_calls |-> 0, write |-> "", raised |-> None,
     critical |-> FALSE, errors_before |-> 0,
     same_grid_as_prev |-> FALSE, same_grid_as_cache |-> FALSE,
     after_failed_delivery |-> FALSE]

NoBoot == [started |-> FALSE, at |-> 0, file |-> "", written |-> 0, seeded |-> FALSE]

\* SheetsObserver.__init__, with no cache file yet.
Init ==
    /\ pc = "init"
    /\ sheet \in Sheets
    /\ now = 0
    /\ last_data_hash = None
    /\ last_successful_check = None
    /\ consecutive_errors = 0
    /\ cache_file = Absent
    /\ last = NoCycle
    /\ boot = NoBoot
    /\ unedited = {}
    /\ failed_since_ok = 0
    /\ undelivered = FALSE
    /\ cycles = 0
    /\ restarts = 0
    /\ exit = NoExit
    /\ decoded = NoPass
    /\ before = NoPass

\* start_monitoring up to its loop: the cached hash, when there is one,
\* becomes the last known hash.  read is what opening an existing cache
\* file does; its failure is caught in load_cache, which returns None.
StartMonitoring ==
    /\ pc = "init"
    /\ \E read \in ReadOutcomes :
       \E cached_hash \in {IF read = "ok" THEN load_cache(cache_file, now) ELSE None} :
           /\ read # "ok" => cache_file # Absent
           /\ last_data_hash' = IF cached_hash # None THEN cached_hash ELSE last_data_hash
           /\ boot' = [started |-> TRUE, at |-> now,
                       file |-> IF read # "ok" THEN "unreadable"
                                ELSE IF cache_file \in {Absent, Partial}
                                THEN cache_file.file ELSE "document",
                       written |-> IF cache_file \in {Absent, Partial}
                                   THEN 0 ELSE cache_file.timestamp,
                       seeded |-> cached_hash # None]
    /\ pc' = "cycle"
    /\ UNCHANGED <<sheet, now, last_successful_check, consecutive_errors, cache_file,
                   last, unedited, failed_since_ok, undelivered, cycles, restarts>>
    /\ UNCHANGED others

\* One run_observation_cycle, then the loop reaches its sleep.  fetch, post
\* and write are what the sheet read, the request and the file write do.
\* has_data_changed has stored the new hash before notify_changes is called;
\* save_cache is called when notify_changes returns.
RunObservationCycle ==
    /\ pc = "cycle"
    /\ cycles < MaxCycles
    /\ \E fetch \in FetchOutcomes, post \in PostOutcomes, write \in WriteOutcomes :
       \E data \in {get_current_data(sheet, now, fetch)} :
       \E cmp \in {has_data_changed(last_data_hash, data.classrooms)} :
       \E sent \in {notify_changes(data.classrooms, now, post)} :
       \E failed \in {CycleFailed(consecutive_errors)} :
        LET fetched  == data.raised = None
            notifies == fetched /\ cmp.changed
            saves    == notifies /\ sent.raised = None
            raised   == IF ~fetched THEN data.raised
                        ELSE IF notifies THEN sent.raised
                        ELSE None
            hash     == IF fetched THEN cmp.last_data_hash ELSE last_data_hash
        IN  /\ last_data_hash' = hash
            /\ cache_file' = IF saves
                             THEN save_cache(cache_file, hash, data.classrooms, now, write)
                             ELSE cache_file
            /\ last_successful_check' = IF raised = None THEN [datetime |-> now]
                                        ELSE last_successful_check
            /\ consecutive_errors' = IF raised = None THEN 0 ELSE failed.consecutive_errors
            /\ failed_since_ok' = IF raised = None THEN 0 ELSE failed_since_ok + 1
            /\ unedited' = ((unedited \cup (IF fetched THEN {"fetch"} ELSE {}))
                               \cup (IF saves /\ write = "ok" THEN {"save"} ELSE {}))
                               \ (IF saves /\ write = "write_error" THEN {"save"} ELSE {})
            /\ undelivered' = IF notifies THEN post \in {"500", "RequestException"}
                               ELSE IF fetched THEN FALSE
                               ELSE undelivered
            /\ last' = [ran |-> TRUE, index |-> last.index + 1, at |-> now,
                        fetch_ok |-> fetched,
                        prev_hash |-> last_data_hash,
                        new_hash |-> IF fetched THEN cmp.current_hash ELSE None,
                        changed |-> notifies,
                        notify_calls |-> IF notifies THEN 1 ELSE 0,
                        posts |-> IF notifies THEN sent.posts ELSE 0,
                        post |-> IF notifies THEN post ELSE "",
                        save_calls |-> IF saves THEN 1 ELSE 0,
                        write |-> IF saves THEN write ELSE "",
                        raised |-> raised,
                        critical |-> raised # None /\ failed.critical,
                        errors_before |-> consecutive_errors,
                        same_grid_as_prev |-> "fetch" \in unedited,
                        same_grid_as_cache |-> "save" \in unedited,
                        after_failed_delivery |-> undelivered]
    /\ pc' = "sleeping"
    /\ now' = now + 1
    /\ cycles' = cycles + 1
    /\ UNCHANGED <<sheet, boot, restarts>>
    /\ UNCHANGED others

\* The loop giving up once consecutive_errors has reached max_retries.
Sleep_unless_critical ==
    /\ pc = "sleeping"
    /\ consecutive_errors < max_retries
    /\ pc' = "cycle"
    /\ now' = now + CheckSleep
    /\ UNCHANGED <<sheet, last_data_hash, last_successful_check, consecutive_errors,
                   cache_file, last, boot, unedited, failed_since_ok, undelivered,
                   cycles, restarts, exit, decoded, before>>

\* await asyncio.sleep(20) returns.
Sleep ==
    /\ pc = "sleeping"
    /\ pc' = "cycle"
    /\ now' = now + CheckSleep
    /\ UNCHANGED <<sheet, last_data_hash, last_successful_check, consecutive_errors,
                   cache_file, last, boot, unedited, failed_since_ok, undelivered,
                   cycles, restarts>>
    /\ UNCHANGED others

\* Somebody edits the worksheet.
EditSheet ==
    /\ \E s \in Sheets \ {sheet} : sheet' = s
    /\ unedited' = {}
    /\ UNCHANGED <<pc, now, last_data_hash, last_successful_check, consecutive_errors,
                   cache_file, last, boot, failed_since_ok, undelivered, cycles,
                   restarts>>
    /\ UNCHANGED others

\* The process is ended during the loop's sleep and started again at once,
\* one second short of a day later, or a day later: __init__ of a new
\* SheetsObserver; only the cache file survives.
Restart ==
    /\ pc = "sleeping"
    /\ restarts < MaxRestarts
    /\ \E downtime \in {0, CacheMaxAge - 1, CacheMaxAge} : now' = now + downtime
    /\ pc' = "init"
    /\ last_data_hash' = None
    /\ last_successful_check' = None
    /\ consecutive_errors' = 0
    /\ last' = NoCycle
    /\ boot' = NoBoot
    /\ unedited' = unedited \ {"fetch"}
    /\ failed_since_ok' = 0
    /\ undelivered' = FALSE
    /\ restarts' = restarts + 1
    /\ UNCHANGED <<sheet, cache_file, cycles>>
    /\ UNCHANGED others

\* SIGINT while the loop is in asyncio.sleep.  The KeyboardInterrupt is
\* raised in the event loop, not in the coroutine: the task is cancelled
\* with CancelledError, which neither except clause of start_monitoring nor
\* of main catches, and asyncio.run(main()) raises KeyboardInterrupt.  With
\* asyncio.run's own SIGINT handler (Python 3.11) a SIGINT during a cycle
\* cancels the task at this same await, after the cycle has ended.
InterruptSleep ==
    /\ pc = "sleeping"
    /\ pc' = "terminal"
    /\ exit' = [how |-> "KeyboardInterrupt", point |-> "sleep"]
    /\ last' = NoCycle
    /\ boot' = NoBoot
    /\ UNCHANGED <<sheet, now, last_data_hash, last_successful_check, consecutive_errors,
                   cache_file, unedited, failed_since_ok, undelivered,
                   cycles, restarts, decoded, before>>

\* SIGINT raised as KeyboardInterrupt inside run_observation_cycle (the
\* default handler): no except Exception catches it, start_monitoring's
\* except KeyboardInterrupt breaks the loop and the method returns.  It
\* arrives while the sheet is read, while the request is made (the new hash
\* is stored by then), or, the request having raised nothing, while
\* json.dump writes the opened cache file.
\* The cycle is not one of the cycles run to their end that cycles counts
\* and last and boot describe; the two logs end with the loop.
InterruptCycle ==
    /\ pc = "cycle"
    /\ \E data \in {get_current_data(sheet, now, "ok")} :
       \E cmp \in {has_data_changed(last_data_hash, data.classrooms)} :
       \E point \in {"fetch", "notify", "save"} :
        /\ point # "fetch" => cmp.changed
        /\ last_data_hash' = IF point = "fetch" THEN last_data_hash ELSE cmp.last_data_hash
        /\ cache_file' = IF point = "save" THEN Partial ELSE cache_file
        /\ unedited' = IF point = "save" THEN unedited \ {"save"} ELSE unedited
        /\ exit' = [how |-> "returned", point |-> point]
    /\ pc' = "terminal"
    /\ last' = NoCycle
    /\ boot' = NoBoot
    /\ UNCHANGED <<sheet, now, last_successful_check, consecutive_errors, cycles,
                   failed_since_ok, undelivered, restarts, decoded, before>>

Next ==
    \/ StartMonitoring
    \/ RunObservationCycle
    \/ Sleep
    \/ EditSheet
    \/ Restart
    \/ InterruptSleep
    \/ InterruptCycle

Spec == Init /\ [][Next]_vars

\* One process from its start to its end, the sheet left alone; the event
\* loop resumes the coroutine when its sleep is over.
LoopNext ==
    \/ StartMonitoring
    \/ RunObservationCycle
    \/ Sleep
    \/ InterruptSleep
    \/ InterruptCycle

LoopSpec == Init /\ [][LoopNext]_vars /\ WF_pc(Sleep)

\* ------------------------------------------------- the decoder's inputs

\* The lines a schedule cell is made of, and the most lines a cell has.
MaxLines == 4
LineTexts == { <<>>, <<" ">>, <<"P">>, <<"M">> }

RECURSIVE JoinLines(_)
JoinLines(ls) ==
    IF Len(ls) = 1 THEN ls[1] ELSE ls[1] \o <<"\n">> \o JoinLines(Tail(ls))

\* Every cell of one to MaxLines lines.
Cells == { JoinLines(ls) : ls \in UNION { [1..n -> LineTexts] : n \in 1..MaxLines } }

\* The texts of a number, building or name cell, and of a capacity cell.
HeaderCells   == { <<>>, <<" ">>, <<"A">>, <<" ", "A", " ">> }
CapacityCells == { <<>>, <<" ">>, <<"x">>, <<"-">>, <<"3", " ", "0">>, <<"3", "0">>,
                   <<" ", "7", "\n">>, <<"+", "3">>, <<"-", "5">>, <<"0">> }

HeaderRow(number, building, name, capacity) ==
    << <<>>, number, building, name, capacity, <<"P">> >>

\* A valid room row next to the row under study.
OtherRoomRow == << <<"x">>, <<"2">>, <<"B">>, <<"L">>, <<"4", "0">>, <<"P", "\n", "M">> >>

\* A row reaching past the last schedule column: "P" in column
\* start_col + total_days * slots_per_day - 1, "M" in the column after it.
LongRow ==
    [c \in 1..(start_col + total_days * slots_per_day + 1) |->
        IF c = 2 THEN <<"3">>
        ELSE IF c = 3 THEN <<"C">>
        ELSE IF c = 4 THEN <<"L">>
        ELSE IF c = 5 THEN <<"5">>
        ELSE IF c = start_col + total_days * slots_per_day THEN <<"P">>
        ELSE IF c = start_col + total_days * slots_per_day + 1 THEN <<"M">>
        ELSE <<>>]

\* Rows of every length: the prefixes of a room row, and the long row with
\* and without its last cell.
UnevenRows ==
    { SubSeq(OtherRoomRow, 1, n) : n \in 0..Len(OtherRoomRow) }
        \cup { LongRow, SubSeq(LongRow, 1, Len(LongRow) - 1) }

StudyRows ==
    { HeaderRow(n, b, m, <<"3", "0">>) : n \in HeaderCells, b \in HeaderCells, m \in HeaderCells }
        \cup { HeaderRow(<<"1">>, <<"A">>, <<"R">>, c) : c \in CapacityCells }
        \cup UnevenRows

\* The grids handed to parse_worksheet_data: a room row with every cell in
\* its first schedule column; a row under study alone, or between two valid
\* room rows; grids too short to hold a room.
DecoderSheets ==
    { TemplateRows \o << RoomRow(<<"3", "0">>, cell) >> : cell \in Cells }
        \cup { TemplateRows \o << r >> : r \in StudyRows }
        \cup { TemplateRows \o << OtherRoomRow, r, RoomRow(<<"3", "0">>, <<"P">>) >> : r \in StudyRows }
        \cup { <<>>, SubSeq(TemplateRows, 1, 3), TemplateRows }

\* What a cell is edited to.
EditValues == { <<>>, <<"9">>, <<" ", "9">> }

\* The rows of data that parse_worksheet_data's loop appends a room for.
RECURSIVE EmittedRows(_, _, _)
EmittedRows(data, current_row, clock) ==
    IF current_row >= Len(data) THEN <<>>
    ELSE (IF _try_parse_classroom_at_row(data, current_row, clock) # None
          THEN <<current_row>> ELSE <<>>)
             \o EmittedRows(data, current_row + 1, clock)

DecodeInit ==
    /\ pc = "grid"
    /\ sheet \in DecoderSheets
    /\ now = 0
    /\ last_data_hash = None
    /\ last_successful_check = None
    /\ consecutive_errors = 0
    /\ cache_file = Absent
    /\ last = NoCycle
    /\ boot = NoBoot
    /\ unedited = {}
    /\ failed_since_ok = 0
    /\ undelivered = FALSE
    /\ cycles = 0
    /\ restarts = 0
    /\ exit = NoExit
    /\ decoded = NoPass
    /\ before = NoPass

loop == <<last_data_hash, last_successful_check, consecutive_errors, cache_file, last,
          boot, unedited, failed_since_ok, undelivered, cycles, restarts, exit>>

\* One decoding pass over the sheet, at the clock's reading.
ParseWorksheet ==
    /\ pc \in {"grid", "edited"}
    /\ decoded' = [done  |-> TRUE,
                   sheet |-> sheet,
                   rooms |-> parse_worksheet_data(sheet, now),
                   from  |-> EmittedRows(sheet, start_row, now),
                   at    |-> now]
    /\ before' = decoded
    /\ pc' = IF pc = "grid" THEN "decoded" ELSE "compared"
    /\ now' = now + 1
    /\ UNCHANGED sheet
    /\ UNCHANGED loop

\* Someone changes the text of one cell of the sheet.
EditCell ==
    /\ pc = "decoded"
    /\ \E r \in 1..Len(sheet) : \E c \in 1..Len(sheet[r]) : \E v \in EditValues :
        /\ v # sheet[r][c]
        /\ sheet' = [sheet EXCEPT ![r][c] = v]
    /\ pc' = "edited"
    /\ UNCHANGED <<now, decoded, before>>
    /\ UNCHANGED loop

DecodeNext ==
    \/ ParseWorksheet
    \/ EditCell

DecodeSpec == DecodeInit /\ [][DecodeNext]_vars

\* --------------------------------------------------------------- claims

\* The cache file holds a complete document.
IsDocument(file) == file \notin {Absent, Partial}

\* C1: with no last known hash, a cycle whose read and decoding succeed is
\* treated as changed and calls notify_changes (one request), whatever was
\* decoded.
C1_FirstCycleNotifies ==
    (last.ran /\ last.fetch_ok /\ last.prev_hash = None)
        => (last.changed /\ last.notify_calls = 1 /\ last.posts = 1)

\* C1's case with an empty collection.
C1_Witness ==
    /\ last.ran /\ last.fetch_ok /\ last.prev_hash = None
    /\ last.new_hash = calculate_data_hash(<<>>)
    /\ last.notify_calls = 1

\* C2: a cycle that decodes the grid the previous successful cycle of the
\* same process decoded, unedited in between, computes the same hash and
\* detects no change.
C2_SameGridSameHash ==
    (last.ran /\ last.fetch_ok /\ last.same_grid_as_prev)
        => (last.new_hash = last.prev_hash /\ ~last.changed)

\* C3: notify_changes is called, and a request sent, only in a cycle that
\* decoded a collection whose hash differs from the stored one or that
\* found no stored hash; never in a cycle whose new hash equals the stored
\* one.
C3_NotifyOnlyOnChange ==
    /\ (last.notify_calls > 0 \/ last.posts > 0)
           => (last.fetch_ok /\ (last.prev_hash = None \/ last.new_hash # last.prev_hash))
    /\ (last.ran /\ last.fetch_ok /\ last.new_hash = last.prev_hash)
           => (last.notify_calls = 0 /\ last.posts = 0)

\* C3's case: a stored hash, a different new hash, a notification.
C3_Witness ==
    /\ last.ran /\ last.prev_hash # None /\ last.new_hash # last.prev_hash
    /\ last.notify_calls = 1

\* C4: a cycle whose new hash equals the stored one leaves last_data_hash
\* and the cache file as they were, calls neither notify_changes nor
\* save_cache, sends nothing, and ends at the loop's sleep.
C4_MatchHasNoEffect ==
    [][(cycles' = cycles + 1 /\ last'.fetch_ok /\ last'.new_hash = last_data_hash)
          => (/\ last_data_hash' = last_data_hash
              /\ cache_file' = cache_file
              /\ last'.notify_calls = 0 /\ last'.posts = 0 /\ last'.save_calls = 0
              /\ pc' = "sleeping")]_vars

\* C4's case: a cycle found the stored hash again, with a cache file present.
C4_Witness ==
    /\ pc = "sleeping" /\ last.ran /\ last.fetch_ok
    /\ last.prev_hash # None /\ last.new_hash = last.prev_hash
    /\ IsDocument(cache_file)

\* C5: after a start that found a cache document not older than a day, the
\* last known hash is the document's, and the first cycle, when it reads the
\* sheet the document was written from, unedited since, detects no change:
\* no notification, no cache write.
C5_RestartDetectsNoChange ==
    (/\ boot.started /\ boot.file = "document" /\ boot.at - boot.written <= CacheMaxAge
     /\ last.ran /\ last.index = 1 /\ last.fetch_ok /\ last.same_grid_as_cache)
        => (/\ boot.seeded
            /\ ~last.changed
            /\ last.notify_calls = 0 /\ last.posts = 0 /\ last.save_calls = 0)

\* C6: a start that finds a cache document older than a day gets no hash
\* from load_cache; last_data_hash is None when the loop begins, and the
\* first cycle, when its read and decoding succeed, notifies.
C6_StaleCacheIgnored ==
    (boot.started /\ boot.file = "document" /\ boot.at - boot.written > CacheMaxAge)
        => (/\ ~boot.seeded
            /\ ~last.ran => last_data_hash = None
            /\ (last.ran /\ last.index = 1) => last.prev_hash = None
            /\ (last.ran /\ last.index = 1 /\ last.fetch_ok) => last.notify_calls = 1)

\* C6's case: a stale document at the start, then the first cycle.
C6_Witness ==
    /\ boot.started /\ boot.file = "document" /\ boot.at - boot.written > CacheMaxAge
    /\ last.ran /\ last.index = 1 /\ last.notify_calls = 1

\* C7: consecutive_errors is the number of cycles that raised since the
\* last cycle that did not (or since the start); a cycle that raises adds
\* one, a cycle that does not sets it to zero.
C7_ErrorsCountFailedCycles ==
    /\ consecutive_errors = failed_since_ok
    /\ last.ran => consecutive_errors =
                       IF last.raised # None THEN last.errors_before + 1 ELSE 0

\* C7's case: two cycles raised, the third did not.
C7_Witness ==
    last.ran /\ last.raised = None /\ last.errors_before = 2 /\ consecutive_errors = 0

\* C8: the cycle whose failure brings the counter to max_retries emits the
\* critical signal; the counter and the last known hash are what the failed
\* cycle alone leaves, and the loop goes on to its sleep, which can end.
C8_CriticalAtThreshold ==
    (last.ran /\ last.raised # None /\ last.errors_before + 1 = max_retries)
        => (/\ last.critical
            /\ consecutive_errors = max_retries
            /\ last_data_hash = IF last.fetch_ok THEN last.new_hash ELSE last.prev_hash
            /\ pc \in {"sleeping", "cycle"}
            /\ pc = "sleeping" => ENABLED Sleep)

\* C8's case: the counter has just reached max_retries.
C8_Witness ==
    /\ last.ran /\ last.raised # None /\ last.critical
    /\ consecutive_errors = max_retries /\ pc = "sleeping"

\* C9: a cycle that detects a change and whose request is answered with a
\* status other than 200, or fails in transport, raises nothing: save_cache
\* is called in it, the counter is 0 after it, and the loop goes on.
C9_DeliveryFailureSwallowed ==
    (last.ran /\ last.changed /\ last.post \in {"500", "RequestException"})
        => (/\ last.raised = None
            /\ last.save_calls = 1
            /\ consecutive_errors = 0
            /\ last.write = "ok" => (IsDocument(cache_file)
                                      /\ cache_file.data_hash = last_data_hash)
            /\ pc \in {"sleeping", "cycle"})

\* C9's case: status 500 after an earlier failed cycle.
C9_Witness ==
    /\ last.ran /\ last.changed /\ last.post = "500" /\ last.errors_before > 0
    /\ last.save_calls = 1 /\ consecutive_errors = 0

\* C10: at most one request is sent per cycle, and the first cycle to read
\* and decode the sheet after a failed delivery sends a notification.
C10_FailedDeliveryRetried ==
    /\ last.posts <= 1
    /\ (last.ran /\ last.fetch_ok /\ last.after_failed_delivery) => last.posts = 1


\* C11: an interrupt arriving at any point of the cycle, sleeping included,
\* ends the loop with start_monitoring returning normally, the interrupt not
\* re-raised.  Not so in the code: an interrupt during asyncio.sleep leaves
\* asyncio.run as an uncaught KeyboardInterrupt.
C11_InterruptReturnsNormally ==
    pc = "terminal" => exit.how = "returned"

\* C20: the checkpoint file never holds a partial or truncated document,
\* whatever happens in the middle of save_cache.  Not so in the code: the
\* file is truncated by open(..., 'w') before json.dump writes it.
C20_CheckpointNeverPartial ==
    cache_file # Partial

\* The cells in which the sheets of the two passes differ, as <<row, column>>
\* with Python's indices.
DiffCells ==
    { rc \in UNION { { <<r - 1, c - 1>> : c \in 1..Len(decoded.sheet[r]) } :
                        r \in 1..Len(decoded.sheet) } :
        decoded.sheet[rc[1] + 1][rc[2] + 1] # before.sheet[rc[1] + 1][rc[2] + 1] }

\* C12 as stated: the fingerprints of two passes over grids that differ in
\* exactly one cell differ.
C12_OneCellChangesHash ==
    pc = "compared" =>
        calculate_data_hash(decoded.rooms) # calculate_data_hash(before.rooms)

\* C12, amended: of two grids that differ in exactly one cell, decoded at
\* the same instant, the fingerprints differ whenever the decoded
\* collections differ in any field, and are equal when the cell is in rows
\* 0-6 or in column 0, which the decoder does not read.
C12_DecodedChangeChangesHash ==
    pc = "compared" =>
        \E old \in {parse_worksheet_data(before.sheet, decoded.at)} :
            /\ old # decoded.rooms
                   => calculate_data_hash(old) # calculate_data_hash(decoded.rooms)
            /\ (\A rc \in DiffCells : rc[1] < 7 \/ rc[2] = 0)
                   => calculate_data_hash(old) = calculate_data_hash(decoded.rooms)

\* C12's case: the edited cell is the capacity of a room, nothing else changed.
C12_Witness ==
    /\ pc = "compared"
    /\ Len(decoded.rooms) = 1 /\ Len(before.rooms) = 1
    /\ decoded.rooms[1].capacity # before.rooms[1].capacity
    /\ decoded.rooms[1].schedule = before.rooms[1].schedule
    /\ decoded.rooms[1].name = before.rooms[1].name

\* A text of whitespace only, the empty text included.
Blank(text) == \A i \in 1..Len(text) : text[i] \in {" ", "\n"}

\* A text that is not empty and neither starts nor ends with whitespace.
Trimmed(text) ==
    /\ text # <<>>
    /\ text[1] \notin {" ", "\n"}
    /\ text[Len(text)] \notin {" ", "\n"}

\* The row of the decoded sheet at Python index r, and the rows emitted.
SheetRow(r) == decoded.sheet[r + 1]
EmittedSet == { decoded.from[k] : k \in 1..Len(decoded.from) }

\* The row has cells in columns 1, 2 and 3, none of them blank.
ValidHeader(row) ==
    Len(row) >= 4 /\ \A c \in 2..4 : ~Blank(row[c])

\* C13: every room of the output has a non-empty, whitespace-trimmed number,
\* building and name; a row with a blank cell in column 1, 2 or 3 yields no
\* room, whatever its schedule columns hold.
C13_RoomsHaveHeader ==
    decoded.done =>
        /\ Len(decoded.rooms) = Len(decoded.from)
        /\ \A k \in 1..Len(decoded.rooms) :
               /\ Trimmed(decoded.rooms[k].number)
               /\ Trimmed(decoded.rooms[k].building)
               /\ Trimmed(decoded.rooms[k].name)
        /\ \A r \in 0..(Len(decoded.sheet) - 1) :
               (\E c \in 2..4 : c <= Len(SheetRow(r)) /\ Blank(SheetRow(r)[c]))
                   => r \notin EmittedSet

\* C13's case: a row with a blank header cell and a schedule cell with text
\* is left out, between rows that are decoded.
C13_Witness ==
    /\ decoded.done
    /\ Len(decoded.rooms) = 2
    /\ \E r \in 7..(Len(decoded.sheet) - 1) :
           /\ r \notin EmittedSet
           /\ Len(SheetRow(r)) >= 6 /\ ~Blank(SheetRow(r)[6])
           /\ Blank(SheetRow(r)[4]) /\ ~Blank(SheetRow(r)[2]) /\ ~Blank(SheetRow(r)[3])

\* data without its row at Python index r.
RemoveRow(data, r) == SubSeq(data, 1, r) \o SubSeq(data, r + 2, Len(data))

\* C14: parse_worksheet_data returns a list of rooms for every grid, rows of
\* uneven length included; a row that cannot be decoded is skipped and
\* nothing else: the rooms returned are, one per emitted row, those returned
\* for the grid without that row.
C14_FailingRowOnlySkipped ==
    decoded.done =>
        /\ DOMAIN decoded.rooms = 1..Len(decoded.from)
        /\ \A r \in 7..(Len(decoded.sheet) - 1) :
               r \notin EmittedSet
                   => parse_worksheet_data(RemoveRow(decoded.sheet, r), decoded.at)
                          = decoded.rooms

\* C14's case: a row with fewer than five cells lies between two rows that
\* are decoded.
C14_Witness ==
    /\ decoded.done
    /\ Len(decoded.rooms) = 2
    /\ \E r \in 7..(Len(decoded.sheet) - 1) :
           /\ r \notin EmittedSet
           /\ Len(SheetRow(r)) \in 1..4
           /\ r - 1 \in EmittedSet /\ r + 1 \in EmittedSet

\* The text is an integer literal: between whitespace, an optional sign and
\* one or more digits.
IsInteger(text) ==
    \E a \in 1..Len(text) : \E b \in a..Len(text) :
        /\ \A i \in 1..Len(text) : (i < a \/ i > b) => text[i] \in {" ", "\n"}
        /\ text[b] \in {"0", "1", "2", "3", "4", "5", "6", "7", "8", "9"}
        /\ \A i \in a..b :
               \/ text[i] \in {"0", "1", "2", "3", "4", "5", "6", "7", "8", "9"}
               \/ i = a /\ text[i] \in {"+", "-"}

\* C15: a row at index 7 or later with a valid header and a capacity cell
\* that is not an integer literal yields a room, and the room's capacity is 0.
C15_UnparsableCapacityIsZero ==
    decoded.done =>
        /\ \A r \in 7..(Len(decoded.sheet) - 1) :
               (/\ ValidHeader(SheetRow(r))
                /\ Len(SheetRow(r)) >= 5 /\ ~IsInteger(SheetRow(r)[5]))
                   => r \in EmittedSet
        /\ \A k \in 1..Len(decoded.rooms) :
               ~IsInteger(SheetRow(decoded.from[k])[5]) => decoded.rooms[k].capacity = 0

\* C15's case: a room decoded from a row whose capacity cell is a word.
C15_Witness ==
    /\ decoded.done
    /\ \E k \in 1..Len(decoded.rooms) :
           /\ SheetRow(decoded.from[k])[5] = <<"x">>
           /\ decoded.rooms[k].capacity = 0

\* C16: the capacity of every room of the output is a non-negative integer,
\* whatever the capacity cell holds.  Not so in the code: int() accepts a
\* sign, and the value is stored as parsed.
C16_CapacityNonNegative ==
    decoded.done =>
        \A k \in 1..Len(decoded.rooms) : decoded.rooms[k].capacity >= 0

\* The hours that bound the canonical intervals.
Hours ==
    << "07:00", "08:00", "09:00", "10:00", "11:00", "12:00", "13:00", "14:00",
       "15:00", "16:00", "17:00", "18:00", "19:00", "20:00", "21:00" >>

\* C17: the schedule of every room of the output has the five weekdays, and
\* each day has exactly 14 slots, the slot at position i running from the
\* i-th hour to the next, whatever the row's length and the cells' content.
C17_FullWeekOfSlots ==
    decoded.done =>
        \A k \in 1..Len(decoded.rooms) :
            /\ DOMAIN decoded.rooms[k].schedule
                   = {"monday", "tuesday", "wednesday", "thursday", "friday"}
            /\ \A day \in DOMAIN decoded.rooms[k].schedule :
                   /\ DOMAIN decoded.rooms[k].schedule[day] = 1..14
                   /\ \A i \in 1..14 :
                          /\ decoded.rooms[k].schedule[day][i].start_time = Hours[i]
                          /\ decoded.rooms[k].schedule[day][i].end_time = Hours[i + 1]

\* C17's case: a room decoded from a row that ends with its capacity cell.
C17_Witness ==
    /\ decoded.done
    /\ \E k \in 1..Len(decoded.rooms) :
           Len(SheetRow(decoded.from[k])) = 5

\* The lines of a text: the stretches between its line breaks.
LineBreaks(text) == { i \in 1..Len(text) : text[i] = "\n" }

LinesOfText(text) ==
    LET nth(n) == CHOOSE i \in LineBreaks(text) :
                      Cardinality({ j \in LineBreaks(text) : j < i }) = n - 1
    IN  [n \in 1..(Cardinality(LineBreaks(text)) + 1) |->
            SubSeq(text,
                   IF n = 1 THEN 1 ELSE nth(n - 1) + 1,
                   IF n = Cardinality(LineBreaks(text)) + 1 THEN Len(text) ELSE nth(n) - 1)]

\* The text without its leading and trailing whitespace.
TrimOf(text) ==
    LET inked == { i \in 1..Len(text) : text[i] \notin {" ", "\n"} }
    IN  IF inked = {} THEN <<>>
        ELSE SubSeq(text, CHOOSE i \in inked : \A j \in inked : i <= j,
                          CHOOSE i \in inked : \A j \in inked : i >= j)

\* Lines n and later, with single spaces between them.
RECURSIVE SpaceJoined(_, _)
SpaceJoined(lines, n) ==
    IF n > Len(lines) THEN <<>>
    ELSE IF n = Len(lines) THEN lines[n]
    ELSE lines[n] \o <<" ">> \o SpaceJoined(lines, n + 1)

\* The slot holds the lines by position.
Positional(lines, slot) ==
    /\ slot.program = lines[1]
    /\ slot.subject = (IF Len(lines) >= 2 THEN lines[2] ELSE <<>>)
    /\ slot.professor = SpaceJoined(lines, 3)

\* The cell that the slot of day d (0-4) and interval i (0-13) of room k is
\* decoded from, "" when the row ends before it; and the slot.
SourceCell(k, d, i) ==
    LET row == SheetRow(decoded.from[k])
    IN  IF 5 + 14 * d + i < Len(row) THEN row[5 + 14 * d + i + 1] ELSE <<>>

SlotOf(k, d, i) ==
    decoded.rooms[k].schedule[<<"monday", "tuesday", "wednesday", "thursday", "friday">>[d + 1]][i + 1]

\* C18 as stated: the slot of a cell that is not blank holds the cell's
\* lines by position, whatever the lines are.
C18_CellLinesArePositional ==
    decoded.done =>
        \A k \in 1..Len(decoded.rooms) : \A d \in 0..4 : \A i \in 0..13 :
            ~Blank(SourceCell(k, d, i))
                => Positional(LinesOfText(SourceCell(k, d, i)), SlotOf(k, d, i))

\* C18, amended: the slot of a cell that is not blank holds by position the
\* lines of the cell's text without its leading and trailing whitespace:
\* line 1 the program, line 2 the subject, line 3 and the lines after it,
\* joined by single spaces, the professor; blank lines in the middle keep
\* their position.
C18_TrimmedLinesArePositional ==
    decoded.done =>
        \A k \in 1..Len(decoded.rooms) : \A d \in 0..4 : \A i \in 0..13 :
            ~Blank(SourceCell(k, d, i))
                => Positional(LinesOfText(TrimOf(SourceCell(k, d, i))), SlotOf(k, d, i))

\* C18's case: a cell of four lines, the second of them empty.
C18_Witness ==
    /\ decoded.done
    /\ \E k \in 1..Len(decoded.rooms) :
           /\ SourceCell(k, 0, 0) = <<"P", "\n", "\n", "M", "\n", "P">>
           /\ SlotOf(k, 0, 0).program = <<"P">>
           /\ SlotOf(k, 0, 0).subject = <<>>
           /\ SlotOf(k, 0, 0).professor = <<"M", " ", "P">>

\* C19: a cell that is empty, blank or missing from its row decodes to a
\* slot with empty subject, professor and program, for which is_empty()
\* holds, and with the times of its interval; a cell with any text that is
\* not whitespace decodes to a slot for which is_empty() does not hold.
C19_BlankCellIsEmptySlot ==
    decoded.done =>
        \A k \in 1..Len(decoded.rooms) : \A d \in 0..4 : \A i \in 0..13 :
            /\ Blank(SourceCell(k, d, i))
                   => /\ SlotOf(k, d, i).subject = <<>>
                      /\ SlotOf(k, d, i).professor = <<>>
                      /\ SlotOf(k, d, i).program = <<>>
                      /\ is_empty(SlotOf(k, d, i))
                      /\ SlotOf(k, d, i).start_time = Hours[i + 1]
                      /\ SlotOf(k, d, i).end_time = Hours[i + 2]
            /\ ~Blank(SourceCell(k, d, i)) => ~is_empty(SlotOf(k, d, i))

\* C19's case: a row whose first schedule cell is whitespace on two lines
\* and which ends there, so that its second schedule cell is missing.
C19_Witness ==
    /\ decoded.done
    /\ \E k \in 1..Len(decoded.rooms) :
           /\ Len(SheetRow(decoded.from[k])) = 6
           /\ SourceCell(k, 0, 0) = <<" ", "\n", " ">>
           /\ is_empty(SlotOf(k, 0, 0))
           /\ is_empty(SlotOf(k, 0, 1))

\* C21: a start that finds no cache file, one it cannot open or one that is
\* not a whole document gets no hash and enters the loop with last_data_hash
\* unset; a cycle whose save_cache fails raises nothing, sets
\* last_successful_check and resets consecutive_errors to 0, and the loop
\* goes on.
C21_CacheFailuresSwallowed ==
    /\ (boot.started /\ boot.file \in {"absent", "partial", "unreadable"})
           => (/\ ~boot.seeded
               /\ pc \in {"cycle", "sleeping"}
               /\ ~last.ran => (last_data_hash = None /\ consecutive_errors = 0))
    /\ (last.ran /\ last.save_calls = 1 /\ last.write \in {"open_error", "write_error"})
           => (/\ last.raised = None
               /\ consecutive_errors = 0
               /\ last_successful_check = [datetime |-> last.at]
               /\ pc \in {"cycle", "sleeping"})

\* C21's case: the loop was started on a partly written cache file, and the
\* write of its first cycle failed as well.
C21_Witness ==
    /\ boot.started /\ boot.file = "partial"
    /\ last.ran /\ last.index = 1 /\ last.errors_before = 0
    /\ last.save_calls = 1 /\ last.write = "write_error"
    /\ consecutive_errors = 0 /\ pc = "sleeping"

\* C22: the loop ends only by an interrupt.  Every cycle run to its end,
\* whether it raised or not and however many cycles failed before it,
\* leaves the loop at its sleep; the sleep is followed by the next cycle;
\* and nothing but an interrupt takes the loop to its end.
C22_LoopEndsOnlyOnInterrupt ==
    /\ [][cycles' = cycles + 1 => pc' = "sleeping"]_<<pc, cycles>>
    /\ [][(pc' = "terminal" /\ pc # "terminal")
              => (exit'.how \in {"KeyboardInterrupt", "returned"} /\ exit'.point # "")]_<<pc, exit>>
    /\ [](pc = "sleeping" => ENABLED Sleep)
    /\ (pc = "sleeping" ~> pc # "sleeping")

\* C22's case: the loop starts a cycle after more than max_retries
\* failed cycles in a row.
C22_Witness ==
    /\ pc = "cycle"
    /\ last.ran /\ last.raised # None
    /\ consecutive_errors > max_retries

\* data with its rows at indices 0-6 emptied.
WithoutTitles(data) ==
    [r \in 1..Len(data) |-> IF r <= 7 THEN <<>> ELSE data[r]]

\* C23 as stated: the rows that yield a room are exactly the rows at index
\* 7 or later with a non-blank number, building and name.
C23_OneRoomPerValidHeader ==
    decoded.done =>
        EmittedSet = { r \in 7..(Len(decoded.sheet) - 1) : ValidHeader(SheetRow(r)) }

\* C23, amended: the output has exactly one room for each row at index 7 or
\* later that has a non-blank number, building and name and a capacity cell
\* (five cells or more), in ascending row order, each room with the trimmed
\* number, building and name of its row; rows 0-6 yield no room and the
\* output is the same with them emptied; a decoded row hides no later row.
C23_OneRoomPerRoomRow ==
    decoded.done =>
        /\ Len(decoded.rooms) = Len(decoded.from)
        /\ \A k \in 1..(Len(decoded.from) - 1) : decoded.from[k] < decoded.from[k + 1]
        /\ EmittedSet = { r \in 7..(Len(decoded.sheet) - 1) :
                             ValidHeader(SheetRow(r)) /\ Len(SheetRow(r)) >= 5 }
        /\ \A k \in 1..Len(decoded.rooms) :
               /\ decoded.rooms[k].number = TrimOf(SheetRow(decoded.from[k])[2])
               /\ decoded.rooms[k].building = TrimOf(SheetRow(decoded.from[k])[3])
               /\ decoded.rooms[k].name = TrimOf(SheetRow(decoded.from[k])[4])
        /\ parse_worksheet_data(WithoutTitles(decoded.sheet), decoded.at) = decoded.rooms

\* C23's case: three room rows in a row, under a title row that has the
\* form of a room row.
C23_Witness ==
    /\ decoded.done
    /\ decoded.from = <<7, 8, 9>>
    /\ Len(decoded.rooms) = 3
    /\ ValidHeader(SheetRow(6)) /\ Len(SheetRow(6)) >= 5

\* C24: the slot of weekday d and interval i of the room decoded from row r
\* is what _parse_time_slot makes of the cell of row r in column
\* 5 + 14 * d + i, or of "" when the row ends before that column; being a
\* function of that one cell, it depends on no other cell.
C24_SlotReadFromItsColumn ==
    decoded.done =>
        \A k \in 1..Len(decoded.rooms) : \A d \in 0..4 : \A i \in 0..13 :
            SlotOf(k, d, i) = _parse_time_slot(SourceCell(k, d, i), Hours[i + 1], Hours[i + 2])

\* C24's case: a row longer than the schedule, with text in the first
\* column of Tuesday, in the last column of Friday and in the column after it.
C24_Witness ==
    /\ decoded.done
    /\ \E k \in 1..Len(decoded.rooms) :
           /\ Len(SheetRow(decoded.from[k])) = 76
           /\ SheetRow(decoded.from[k])[76] = <<"M">>
           /\ SourceCell(k, 1, 0) = <<"9">> /\ SlotOf(k, 1, 0).program = <<"9">>
           /\ SourceCell(k, 4, 13) = <<"P">> /\ SlotOf(k, 4, 13).program = <<"P">>
           /\ \A d \in 0..4 : \A i \in 0..13 :
                  (<<d, i>> \notin {<<1, 0>>, <<4, 13>>}) => is_empty(SlotOf(k, d, i))

\* C25 as stated, for the cycle boundaries of the process that wrote the
\* checkpoint: once a write has succeeded, the checkpoint's data_hash
\* equals last_data_hash at every cycle boundary.  It is stated here of the
\* boundaries after a cycle that raised nothing and read an edited sheet,
\* where no other defect of the code plays a part.
C25_CheckpointMatchesLastHash ==
    (/\ pc \in {"cycle", "sleeping"}
     /\ boot.started /\ last.ran
     /\ last.raised = None /\ ~last.same_grid_as_prev
     /\ IsDocument(cache_file) /\ cache_file.timestamp >= boot.at)
        => cache_file.data_hash = last_data_hash

\* C25, amended: the data_hash of every checkpoint written is the
\* fingerprint of the classrooms written with it; and at the end of a cycle
\* whose save_cache wrote the checkpoint, that data_hash is the hash the
\* cycle computed and equals last_data_hash.
C25_CheckpointMatchesAtWrite ==
    /\ IsDocument(cache_file) => cache_file.data_hash = md5(cache_file.classrooms)
    /\ (last.ran /\ last.save_calls = 1 /\ last.write = "ok")
           => (/\ IsDocument(cache_file)
               /\ cache_file.timestamp = last.at
               /\ cache_file.data_hash = last.new_hash
               /\ cache_file.data_hash = last_data_hash)

\* C25's case: a checkpoint of a sheet with a room is overwritten by a
\* later cycle.
C25_Witness ==
    /\ pc = "sleeping"
    /\ last.ran /\ last.index >= 2 /\ last.save_calls = 1 /\ last.write = "ok"
    /\ last.same_grid_as_cache
    /\ IsDocument(cache_file) /\ cache_file.classrooms # <<>>

\* C26: a cycle that ends on the failure path (an exception caught by
\* run_observation_cycle, consecutive_errors incremented) leaves the stored
\* last-known fingerprint as it was at the start of that cycle.  Not so in
\* the code: has_data_changed stores the new hash before notify_changes is
\* called, and the except clause does not put the old one back.
C26_FailedCycleKeepsFingerprint ==
    (/\ pc = "sleeping" /\ last.ran /\ last.raised # None
     /\ consecutive_errors = last.errors_before + 1)
        => last_data_hash = last.prev_hash

====
